---- MODULE Spec2Model ----
(***************************************************************************)
(* Model of src/app.py: the Frank-Starling curve analysis page.            *)
(*                                                                         *)
(* Numbers.  Volumes (column IV) are whole mL.  Every other real is kept   *)
(* as a whole number of tenths: responses (column VTI), and the four       *)
(* parameters A1, A2, x0, p with their guesses and bounds.  So 1.0 is 10,  *)
(* 0.1 is 1, and 0.1*min(x) of a whole volume is exact.                    *)
(*                                                                         *)
(* A cell of a data frame is <<>> when it is missing (None / NaN) and <<v>>*)
(* when it holds v.  A data frame is <<columns, rows>>: the sequence of    *)
(* its column names and the sequence of its rows, a row being the sequence *)
(* of its cells in column order.                                           *)
(***************************************************************************)
EXTENDS Integers, Sequences, FiniteSets, TLC

VARIABLES default_data, edited_df, edits, x, y, fit, shown

vars == <<default_data, edited_df, edits, x, y, fit, shown>>

(***************************************************************************)
(* Bounds of the model.                                                    *)
(***************************************************************************)
MaxRows == 8
MaxEdits == 1
MaxLen == 5

(***************************************************************************)
(* Helpers on sequences of numbers.                                        *)
(***************************************************************************)
Range(s) == {s[i] : i \in DOMAIN s}

Abs(v) == IF v < 0 THEN 0 - v ELSE v

Tenths(v) == 10 * v

Min(s) == CHOOSE v \in Range(s) : \A w \in Range(s) : v <= w

Max(s) == CHOOSE v \in Range(s) : \A w \in Range(s) : w <= v

\* the k-th smallest element of s (1-based), duplicates counted
KthSmallest(s, k) ==
    CHOOSE v \in Range(s) :
        /\ Cardinality({i \in DOMAIN s : s[i] < v}) < k
        /\ k <= Cardinality({i \in DOMAIN s : s[i] <= v})

\* np.median of whole numbers, in tenths: the middle element, or the mean
\* of the two middle elements
Median(s) ==
    IF Len(s) % 2 = 1
    THEN Tenths(KthSmallest(s, (Len(s) + 1) \div 2))
    ELSE 5 * (KthSmallest(s, Len(s) \div 2) + KthSmallest(s, Len(s) \div 2 + 1))

(***************************************************************************)
(* Text.  A message is a sequence of tokens; str(n) of a count is the      *)
(* sequence of its decimal digits.                                         *)
(***************************************************************************)
Digit(d) == <<"0", "1", "2", "3", "4", "5", "6", "7", "8", "9">>[d + 1]

RECURSIVE Str(_)
Str(n) == IF n < 10 THEN <<Digit(n)>> ELSE Str(n \div 10) \o <<Digit(n % 10)>>

\* t occurs in m as a run of consecutive tokens
Contains(m, t) ==
    \E i \in 0..(Len(m) - Len(t)) : \A j \in 1..Len(t) : m[i + j] = t[j]

(***************************************************************************)
(* fit_frank_starling_curve: guess, bounds, optimizer, error wrapping.     *)
(***************************************************************************)
FitMinPoints == 5

initial_guess(xs, ys) == <<Min(ys), Max(ys), Median(xs), 10>>

\* the sign slip min(y)+spread in the lower bounds of A1 and A2
lower_bounds_sign(xs, ys) ==
    << Min(ys) + Abs(Max(ys) - Min(ys)),
       Min(ys) + Abs(Max(ys) - Min(ys)),
       Tenths(Min(xs)) \div 10,
       1 >>

lower_bounds(xs, ys) ==
    << Min(ys) - Abs(Max(ys) - Min(ys)),
       Min(ys) - Abs(Max(ys) - Min(ys)),
       Tenths(Min(xs)) \div 10,
       1 >>

upper_bounds(xs, ys) ==
    << Max(ys) + Abs(Max(ys) - Min(ys)),
       Max(ys) + Abs(Max(ys) - Min(ys)),
       Tenths(Max(xs)) * 2,
       100 >>

NoParams == <<>>

NoMsg == <<>>

NoExc == ""

\* how a call of curve_fit ends: <<params, exception type, exception message>>
Returned(ps) == <<ps, NoExc, NoMsg>>

Raised(etype, emsg) == <<NoParams, etype, emsg>>

out_params(o) == o[1]

out_exc_type(o) == o[2]

out_exc_msg(o) == o[3]

\* the parameter vectors the optimizer is taken to return: a rising and a
\* falling curve on the corners of the bounds, with each steepness of ps
\* that the bounds admit
Candidates(lo, hi, ps) ==
    { <<c[1], c[2], c[3], p>> :
        c \in { <<lo[1], hi[2], lo[3]>>, <<hi[1], lo[2], hi[3]>> },
        p \in { v \in ps : lo[4] <= v /\ v <= hi[4] } }

\* scipy's curve_fit with bounds: it rejects bounds that are not strictly
\* ordered and a start outside them; otherwise it returns parameters inside
\* the bounds or raises
curve_fit(p0, lo, hi, ps) ==
    IF \E i \in 1..4 : lo[i] >= hi[i]
    THEN { Raised("ValueError",
                  <<"Each lower bound must be strictly less than each upper bound.">>) }
    ELSE IF \E i \in 1..4 : p0[i] < lo[i] \/ p0[i] > hi[i]
    THEN { Raised("ValueError", <<"x0 is infeasible.">>) }
    ELSE { Returned(c) : c \in Candidates(lo, hi, ps) }
         \cup
         { Raised("RuntimeError",
                  <<"Optimal parameters not found: The maximum number of function evaluations is exceeded.">>),
           Raised("LinAlgError", <<"SVD did not converge in Linear Least Squares">>) }

\* except RuntimeError as e: only non-convergence is caught and re-raised
Reraise_runtime_only(o) ==
    IF out_exc_type(o) = "RuntimeError"
    THEN Raised("ValueError", <<"Curve fitting failed: ">> \o out_exc_msg(o))
    ELSE o

\* try: ... return params
\* except Exception as e: raise ValueError(f"Curve fitting failed: {str(e)}")
Reraise(o) ==
    IF out_exc_type(o) = NoExc
    THEN o
    ELSE Raised("ValueError", <<"Curve fitting failed: ">> \o out_exc_msg(o))

\* what a call of fit_frank_starling_curve leaves behind:
\*   <<called, n, p0, lower, upper, curve_fit_calls, params, exc_type, exc_msg,
\*     cause_type, cause_msg>>
\* n is len(x); p0, lower and upper are the configuration handed to the
\* optimizer (<<>> when none was built); params is the value returned (<<>>
\* when the call raised); exc_* is the exception that left the call and
\* cause_* the optimizer's exception it was raised from.
called(f) == f[1]

n_points(f) == f[2]

p0(f) == f[3]

lower(f) == f[4]

upper(f) == f[5]

curve_fit_calls(f) == f[6]

params(f) == f[7]

exc_type(f) == f[8]

exc_msg(f) == f[9]

cause_type(f) == f[10]

cause_msg(f) == f[11]

NotCalled == <<FALSE, 0, <<>>, <<>>, <<>>, 0, NoParams, NoExc, NoMsg, NoExc, NoMsg>>

\* the call once the optimizer ended with o, which leaves the call as e
FitEnd(n, g, lo, hi, o, e) ==
    << TRUE, n, g, lo, hi, 1, out_params(e), out_exc_type(e), out_exc_msg(e),
       out_exc_type(o), out_exc_msg(o) >>

\* the try block: one call of curve_fit with guess g and bounds (lo, hi)
FitWith(n, g, lo, hi, ps) ==
    { FitEnd(n, g, lo, hi, o, Reraise(o)) : o \in curve_fit(g, lo, hi, ps) }

\* raise ValueError("Need at least 5 data points")
FitInsufficient(n) ==
    << TRUE, n, <<>>, <<>>, <<>>, 0, NoParams,
       "ValueError", <<"Need at least ", "5", " data points">>, NoExc, NoMsg >>

\* the call with its guard written len(x) < 4
fit_frank_starling_curve_lax(xs, ys, ps) ==
    IF Len(xs) < FitMinPoints - 1
    THEN { FitInsufficient(Len(xs)) }
    ELSE FitWith(Len(xs), initial_guess(xs, ys), lower_bounds(xs, ys),
                 upper_bounds(xs, ys), ps)

\* the set of ways a call fit_frank_starling_curve(xs, ys) can end
fit_frank_starling_curve(xs, ys, ps) ==
    IF Len(xs) < FitMinPoints
    THEN { FitInsufficient(Len(xs)) }
    ELSE FitWith(Len(xs), initial_guess(xs, ys), lower_bounds(xs, ys),
                 upper_bounds(xs, ys), ps)

(***************************************************************************)
(* Direct calls of fit_frank_starling_curve on arbitrary arrays.           *)
(***************************************************************************)
XValues == {0, 100, 200}

YValues == {20, 50}

NoFrame == << <<>>, <<>> >>

NoDisplay == <<"none">>

InitFit ==
    /\ default_data = NoFrame
    /\ edited_df = NoFrame
    /\ edits = 0
    /\ \E n \in 0..MaxLen :
         /\ x \in [1..n -> XValues]
         /\ y \in [1..n -> YValues]
    /\ fit = NotCalled
    /\ shown = NoDisplay

FitCall ==
    /\ ~called(fit)
    /\ fit' \in fit_frank_starling_curve(x, y, {10})
    /\ UNCHANGED <<default_data, edited_df, edits, x, y, shown>>

NextFit == FitCall

SpecFit == InitFit /\ [][NextFit]_vars

(***************************************************************************)
(* Data frames: st.session_state.default_data and the frame the data       *)
(* editor returns.                                                         *)
(***************************************************************************)
IV == "IV Volume (mL)"

\* the response column, 'ΔVTI (cm)' in the source
VTI == "dVTI (cm)"

NA == <<>>

columns(df) == df[1]

rows(df) == df[2]

IsNA(cell) == cell = NA

ColumnIndex(df, c) == CHOOSE j \in DOMAIN columns(df) : columns(df)[j] = c

\* pandas DataFrame.dropna(): the rows without a missing cell in any column
dropna(df) ==
    << columns(df),
       SelectSeq(rows(df), LAMBDA r : \A j \in DOMAIN r : ~IsNA(r[j])) >>

\* clean_data[c].values
values(df, c) == [i \in 1..Len(rows(df)) |-> rows(df)[i][ColumnIndex(df, c)][1]]

\* initialize_data / reset_data: five volumes, no response entered yet
DefaultData ==
    << <<IV, VTI>>,
       << << <<75>>, NA >>, << <<150>>, NA >>, << <<200>>, NA >>,
          << <<250>>, NA >>, << <<300>>, NA >> >> >>

(***************************************************************************)
(* The analysis half of main(): clean data, sufficiency branch, fit,       *)
(* clinical interpretation and recommendations.                            *)
(*                                                                         *)
(* What a pass displays is                                                 *)
(*   <<branch, message, metrics, reserve, sensitivity, high, low, more,    *)
(*     tip>>                                                               *)
(* branch: "info" (no clean row), "scatter" (too few rows), "results" (fit *)
(* succeeded), "error" (except ValueError), "analysis error" (except       *)
(* Exception); message: the warning or error text; metrics: the four       *)
(* parameters shown (<<>> when none); reserve: <<>> or <<cardiac reserve>>;*)
(* sensitivity: "" or the category; high, low, more: the recommendation    *)
(* notes; tip: the hint shown below an error.                              *)
(***************************************************************************)
MainMinPoints == 5

MoreDataBelow == 8

branch(d) == d[1]

message(d) == d[2]

metrics(d) == d[3]

reserve(d) == d[4]

sensitivity(d) == d[5]

high_note(d) == d[6]

low_note(d) == d[7]

more_data_note(d) == d[8]

tip(d) == d[9]

\* the caller's branch with its threshold written 4
SufficiencyBranch_off(n) ==
    IF n = 0 THEN "info" ELSE IF n < MainMinPoints - 1 THEN "scatter" ELSE "fit"

\* if len(x) == 0 / elif len(x) < 5 / else
SufficiencyBranch(n) ==
    IF n = 0 THEN "info" ELSE IF n < MainMinPoints THEN "scatter" ELSE "fit"

cardiac_reserve(ps) == ps[2] - ps[1]

\* the category with >= written for >
preload_sensitivity_ge(ps) ==
    IF ps[4] >= 15 THEN "High" ELSE IF ps[4] >= 8 THEN "Moderate" ELSE "Low"

\* 'High' if p > 1.5 else 'Moderate' if p > 0.8 else 'Low'
preload_sensitivity(ps) ==
    IF ps[4] > 15 THEN "High" ELSE IF ps[4] > 8 THEN "Moderate" ELSE "Low"

\* if p > 2.0: high note / elif p < 1.0: low note
HighRecommendation(ps) == ps[4] > 20

LowRecommendation(ps) == ~(ps[4] > 20) /\ ps[4] < 10

\* the recommendation with <= written for <
MoreDataRecommendation_le(n) == n <= MoreDataBelow

\* if len(x) < 8: more data points recommended
MoreDataRecommendation(n) == n < MoreDataBelow

\* a handler that falls back to the initial guess when the fit failed
Results_fallback(n, f) ==
    IF exc_type(f) = NoExc \/ p0(f) # <<>>
    THEN << "results", NoMsg, IF exc_type(f) = NoExc THEN params(f) ELSE p0(f),
            <<cardiac_reserve(IF exc_type(f) = NoExc THEN params(f) ELSE p0(f))>>,
            preload_sensitivity(IF exc_type(f) = NoExc THEN params(f) ELSE p0(f)),
            HighRecommendation(IF exc_type(f) = NoExc THEN params(f) ELSE p0(f)),
            LowRecommendation(IF exc_type(f) = NoExc THEN params(f) ELSE p0(f)),
            MoreDataRecommendation(n), FALSE >>
    ELSE << "error", exc_msg(f), NoParams, <<>>, "", FALSE, FALSE, FALSE, TRUE >>

\* the try block of main() around and after the call of fit; plotting and
\* the download button, which sit between the metrics and the
\* interpretation, are taken not to raise
Results(n, f) ==
    IF exc_type(f) = NoExc
    THEN << "results", NoMsg, params(f), <<cardiac_reserve(params(f))>>,
            preload_sensitivity(params(f)), HighRecommendation(params(f)),
            LowRecommendation(params(f)), MoreDataRecommendation(n), FALSE >>
    ELSE IF exc_type(f) = "ValueError"
    THEN << "error", exc_msg(f), NoParams, <<>>, "", FALSE, FALSE, FALSE, TRUE >>
    ELSE << "analysis error", <<"Analysis error: ">> \o exc_msg(f), NoParams, <<>>,
            "", FALSE, FALSE, FALSE, FALSE >>

\* the branches of main() on the clean arrays xs, ys
AnalysisOf(xs, ys, ps) ==
    IF SufficiencyBranch(Len(xs)) = "info"
    THEN { << xs, ys, NotCalled,
              <<"info", <<"Enter dVTI values to see the analysis">>, NoParams,
                <<>>, "", FALSE, FALSE, FALSE, FALSE>> >> }
    ELSE IF SufficiencyBranch(Len(xs)) = "scatter"
    THEN { << xs, ys, NotCalled,
              <<"scatter",
                <<"Need at least 5 dVTI data points to fit the curve (currently have ">>
                    \o Str(Len(xs)) \o <<")">>,
                NoParams, <<>>, "", FALSE, FALSE, FALSE, FALSE>> >> }
    ELSE { << xs, ys, f, Results(Len(xs), f) >> :
             f \in fit_frank_starling_curve(xs, ys, ps) }

\* clean_data = edited_df.dropna(); x and y are its two columns
CleanArrays(clean, ps) == AnalysisOf(values(clean, IV), values(clean, VTI), ps)

\* one analysis pass over the frame the editor returned: the set of
\* <<x, y, fit, shown>> it can end with
Analysis(df, ps) == CleanArrays(dropna(df), ps)

(***************************************************************************)
(* The page: every interaction reruns main(), so each action ends with one *)
(* analysis pass over the frame the editor then returns.                   *)
(***************************************************************************)
\* steepness values the optimizer is taken to return (tenths)
PGrid == {8, 9, 10, 15, 16, 20, 21}

\* what a user types into a cell of each editor column (volumes >= 0)
CellValues(c) ==
    IF c = IV THEN {NA, <<0>>, <<100>>}
    ELSE IF c = VTI THEN {NA, <<20>>, <<50>>}
    ELSE {NA, <<1>>}

Volumes5 == <<75, 150, 200, 250, 300>>

Frame2(xs, ys) ==
    << <<IV, VTI>>, [i \in 1..Len(xs) |-> << <<xs[i]>>, <<ys[i]>> >>] >>

\* CSV files a user may upload
CsvRising == Frame2(Volumes5, <<20, 50, 80, 90, 92>>)

CsvFlat == Frame2(Volumes5, <<50, 50, 50, 50, 50>>)

CsvTwo == Frame2(<<75, 150>>, <<20, 50>>)

CsvEight ==
    Frame2(<<50, 100, 150, 200, 250, 300, 350, 400>>,
           <<10, 20, 40, 60, 80, 90, 95, 96>>)

\* a third column, empty in the second row
CsvNotes ==
    << <<IV, VTI, "Notes">>,
       << << <<75>>, <<20>>, <<1>> >>, << <<150>>, <<50>>, NA >>,
          << <<200>>, <<80>>, <<1>> >>, << <<250>>, <<90>>, <<1>> >>,
          << <<300>>, <<92>>, <<1>> >> >> >>

\* a file without the response column
CsvNoResponse == << <<IV>>, << << <<75>> >>, << <<150>> >> >> >>

CsvFiles == {CsvRising, CsvFlat, CsvTwo, CsvEight, CsvNotes, CsvNoResponse}

\* required_columns.issubset(imported_data.columns)
HasRequiredColumns(df) == {IV, VTI} \subseteq Range(columns(df))

AnalysisPass(df) ==
    \E r \in Analysis(df, PGrid) :
        /\ x' = r[1]
        /\ y' = r[2]
        /\ fit' = r[3]
        /\ shown' = r[4]

Init ==
    /\ default_data = DefaultData
    /\ edited_df = DefaultData
    /\ edits = 0
    /\ \E r \in Analysis(DefaultData, PGrid) :
         /\ x = r[1]
         /\ y = r[2]
         /\ fit = r[3]
         /\ shown = r[4]

\* the user changes one cell in the data editor
EditCell ==
    /\ edits < MaxEdits
    /\ \E i \in DOMAIN rows(edited_df), j \in DOMAIN columns(edited_df) :
         \E v \in CellValues(columns(edited_df)[j]) :
           /\ v # rows(edited_df)[i][j]
           /\ edited_df' = << columns(edited_df),
                              [rows(edited_df) EXCEPT ![i][j] = v] >>
    /\ edits' = edits + 1
    /\ UNCHANGED default_data
    /\ AnalysisPass(edited_df')

\* num_rows="dynamic": the user appends an empty row
AddRow ==
    /\ edits < MaxEdits
    /\ Len(rows(edited_df)) < MaxRows
    /\ edited_df' = << columns(edited_df),
                       Append(rows(edited_df),
                              [j \in DOMAIN columns(edited_df) |-> NA]) >>
    /\ edits' = edits + 1
    /\ UNCHANGED default_data
    /\ AnalysisPass(edited_df')

\* num_rows="dynamic": the user deletes a row
DeleteRow ==
    /\ edits < MaxEdits
    /\ \E i \in DOMAIN rows(edited_df) :
         edited_df' = << columns(edited_df),
                         [k \in 1..(Len(rows(edited_df)) - 1) |->
                             IF k < i THEN rows(edited_df)[k]
                                      ELSE rows(edited_df)[k + 1]] >>
    /\ edits' = edits + 1
    /\ UNCHANGED default_data
    /\ AnalysisPass(edited_df')

\* the Reset Data button: reset_data(), st.rerun(); the rerun's editor is
\* taken to show the fresh default data
ResetData ==
    /\ default_data' = DefaultData
    /\ edited_df' = DefaultData
    /\ edits' = 0
    /\ AnalysisPass(edited_df')

\* a CSV file with the two required columns is uploaded: it replaces the
\* session's data, st.rerun()
ImportCsv ==
    /\ \E file \in CsvFiles :
         /\ HasRequiredColumns(file)
         /\ default_data' = file
         /\ edited_df' = file
    /\ edits' = 0
    /\ AnalysisPass(edited_df')

\* a CSV file without the required columns is uploaded: an error is shown
\* and the pass goes on with the data as it is
ImportRejected ==
    /\ \E file \in CsvFiles : ~HasRequiredColumns(file)
    /\ UNCHANGED <<default_data, edited_df, edits>>
    /\ AnalysisPass(edited_df)

\* any other interaction (the export and download buttons) reruns main()
Rerun ==
    /\ UNCHANGED <<default_data, edited_df, edits>>
    /\ AnalysisPass(edited_df)

Next ==
    \/ EditCell
    \/ AddRow
    \/ DeleteRow
    \/ ResetData
    \/ ImportCsv
    \/ ImportRejected
    \/ Rerun

Spec == Init /\ [][Next]_vars

(***************************************************************************)
(* Properties of fit_frank_starling_curve, checked under SpecFit.          *)
(***************************************************************************)
NonNegative(xs) == \A i \in DOMAIN xs : xs[i] >= 0

ConfigOrdered(g, lo, hi) == \A i \in 1..4 : lo[i] <= g[i] /\ g[i] <= hi[i]

C3_ConfigOrdered ==
    (Len(x) >= 1 /\ NonNegative(x)) =>
        /\ ConfigOrdered(initial_guess(x, y), lower_bounds(x, y), upper_bounds(x, y))
        /\ curve_fit_calls(fit) = 1 => ConfigOrdered(p0(fit), lower(fit), upper(fit))

C3_Witness ==
    /\ curve_fit_calls(fit) = 1
    /\ NonNegative(x)
    /\ Min(y) = Max(y)
    /\ lower(fit)[1] = upper(fit)[1]
    /\ p0(fit)[1] = lower(fit)[1]

\* C5: a call of fit with n >= 5 points ends in one of two ways, whatever
\* the optimizer raised: it returns four parameters, or it raises the
\* fit-failed error (ValueError "Curve fitting failed: ...") whose message
\* ends with the optimizer's own message.
C5_FitFailedUniform ==
    (called(fit) /\ n_points(fit) >= 5) =>
        \/ /\ exc_type(fit) = NoExc
           /\ Len(params(fit)) = 4
           /\ cause_type(fit) = NoExc
        \/ /\ exc_type(fit) = "ValueError"
           /\ params(fit) = NoParams
           /\ cause_type(fit) # NoExc
           /\ exc_msg(fit) = <<"Curve fitting failed: ">> \o cause_msg(fit)

C5_Witness ==
    /\ called(fit)
    /\ n_points(fit) >= 5
    /\ cause_type(fit) = "LinAlgError"
    /\ exc_type(fit) = "ValueError"
    /\ Contains(exc_msg(fit), cause_msg(fit))

\* the kind of error fit raises for too few points
InsufficientKind ==
    exc_type(CHOOSE f \in fit_frank_starling_curve(<<>>, <<>>, {}) : TRUE)

\* C6 as stated: too few points, collapsed bounds and a failed optimizer reach
\* the caller as three different kinds of error, and collapsed bounds are
\* signaled without running the optimizer.
C6_ErrorKindsDistinct ==
    /\ (curve_fit_calls(fit) = 1 /\ exc_type(fit) # NoExc) =>
           exc_type(fit) # InsufficientKind
    /\ (called(fit) /\ n_points(fit) >= 5
          /\ \E i \in 1..4 : lower_bounds(x, y)[i] >= upper_bounds(x, y)[i]) =>
           /\ curve_fit_calls(fit) = 0
           /\ exc_type(fit) \notin {NoExc, InsufficientKind}

(***************************************************************************)
(* Properties of the analysis pass, checked under Spec.                    *)
(***************************************************************************)
\* C2: in every analysis pass the caller invokes fit exactly when the clean
\* data has at least 5 rows, a fit the caller invoked got past fit's own
\* check of the count (it reached the optimizer), and a pass with fewer than
\* 5 rows shows the data without a fit.
C2_GateAgrees ==
    /\ called(fit) <=> Len(x) >= 5
    /\ called(fit) => (n_points(fit) = Len(x) /\ curve_fit_calls(fit) = 1)
    /\ Len(x) < 5 => (branch(shown) \in {"info", "scatter"} /\ curve_fit_calls(fit) = 0)

C2_Witness ==
    /\ Len(x) = 5
    /\ called(fit)
    /\ curve_fit_calls(fit) = 1
    /\ exc_type(fit) = NoExc

\* C4 as stated: whenever the caller's fit reaches the optimizer on volumes
\* that are all non-negative, the lower bound on x0 is strictly positive.
C4_LowerBoundPositive ==
    (curve_fit_calls(fit) = 1 /\ NonNegative(x)) => lower(fit)[3] > 0

\* C7: after a successful fit the category is High exactly for p > 1.5,
\* Moderate exactly for 0.8 < p <= 1.5 and Low exactly for p <= 0.8, and the
\* cardiac reserve is A2 - A1, negative when A2 < A1.
C7_Summary ==
    branch(shown) = "results" =>
        /\ sensitivity(shown) = "High" <=> params(fit)[4] > 15
        /\ sensitivity(shown) = "Moderate" <=>
               (8 < params(fit)[4] /\ params(fit)[4] <= 15)
        /\ sensitivity(shown) = "Low" <=> params(fit)[4] <= 8
        /\ reserve(shown) = <<params(fit)[2] - params(fit)[1]>>

C7_Witness ==
    /\ branch(shown) = "results"
    /\ params(fit)[4] = 15
    /\ sensitivity(shown) = "Moderate"
    /\ params(fit)[2] < params(fit)[1]
    /\ reserve(shown)[1] < 0

\* C8: after a successful fit the high note is shown exactly for p > 2.0, the
\* low note exactly for p < 1.0, never both, and the more-data note exactly
\* when fewer than 8 rows were fitted.
C8_Recommendations ==
    branch(shown) = "results" =>
        /\ high_note(shown) <=> params(fit)[4] > 20
        /\ low_note(shown) <=> params(fit)[4] < 10
        /\ ~(high_note(shown) /\ low_note(shown))
        /\ more_data_note(shown) <=> Len(x) < 8

C8_Witness ==
    /\ branch(shown) = "results"
    /\ params(fit)[4] = 9
    /\ sensitivity(shown) = "Moderate"
    /\ low_note(shown)
    /\ Len(x) = 8
    /\ ~more_data_note(shown)

\* C9: a pass runs the optimizer at most once; it shows parameters, a
\* category and notes only when the optimizer of that pass returned them;
\* when the fit failed or was not attempted it shows none of them.
C9_NoResultWithoutFit ==
    /\ curve_fit_calls(fit) <= 1
    /\ branch(shown) = "results" =>
          /\ called(fit)
          /\ n_points(fit) = Len(x)
          /\ curve_fit_calls(fit) = 1
          /\ cause_type(fit) = NoExc
          /\ exc_type(fit) = NoExc
          /\ metrics(shown) = params(fit)
    /\ (~called(fit) \/ exc_type(fit) # NoExc) =>
          /\ branch(shown) # "results"
          /\ metrics(shown) = NoParams
          /\ reserve(shown) = <<>>
          /\ sensitivity(shown) = ""
          /\ ~high_note(shown)
          /\ ~low_note(shown)
          /\ ~more_data_note(shown)

C9_Witness ==
    /\ called(fit)
    /\ cause_type(fit) = "RuntimeError"
    /\ branch(shown) = "error"
    /\ metrics(shown) = NoParams
    /\ sensitivity(shown) = ""

\* the rows of df in which both the volume and the response are defined
DefinedRows(df) ==
    SelectSeq(rows(df), LAMBDA r : /\ ~IsNA(r[ColumnIndex(df, IV)])
                                   /\ ~IsNA(r[ColumnIndex(df, VTI)]))

\* C10 as stated: the clean arrays of a pass are the volumes and responses
\* of exactly the rows of the current data in which both are defined, in
\* order; with the data just reset they are empty and no fit is attempted.
C10_CleanIsDefinedRows ==
    /\ x = [i \in 1..Len(DefinedRows(edited_df)) |->
              DefinedRows(edited_df)[i][ColumnIndex(edited_df, IV)][1]]
    /\ y = [i \in 1..Len(DefinedRows(edited_df)) |->
              DefinedRows(edited_df)[i][ColumnIndex(edited_df, VTI)][1]]
    /\ edited_df = DefaultData => (Len(x) = 0 /\ ~called(fit))

====
